---- MODULE Spec2Model ----
(***************************************************************************)
(* A model of loxide: Scanner (src/src/scanner/mod.rs), Parser             *)
(* (src/src/parser/mod.rs), the tree-walking evaluator                     *)
(* (src/src/parser/expr.rs) and the shell around them (src/src/lox.rs).    *)
(*                                                                         *)
(* A source string is a sequence of characters; each character is a        *)
(* one-character TLA+ string, or "U+XXXX" for a character outside ASCII.   *)
(* Rust keeps the source twice: as Vec<char> (indexed by character) and as *)
(* String (sliced by byte offset).  The model keeps that difference:       *)
(* start/current count characters, StrGet slices by UTF-8 byte offset.     *)
(* A Rust panic (unwrap of None, index out of range) is the status         *)
(* "panic": the process is gone.                                           *)
(***************************************************************************)
EXTENDS Integers, Sequences, FiniteSets, TLC

VARIABLES
    source,     \* Scanner.source / source_chars
    tokens,     \* Scanner.tokens
    start,      \* Scanner.start   (0-based character index)
    current,    \* Scanner.current (0-based character index)
    line,       \* Scanner.line
    errors,     \* what lox::error was called with, in order: <<line, message>>
    parser,     \* the Parser struct of `run`: [tokens, current]; None before
    ast,        \* what Parser::parse returned: Option<Expr>
    result,     \* what interpreter::interpret came to; None before
    stdin,      \* the lines run_prompt has still to read
    args,       \* env::args(): the name of the program, then its arguments
    pc          \* where the program stands:
                \*   "main"    main is about to look at its arguments
                \*   "prompt"  run_prompt is about to read a line
                \*   "file"    run_file is about to read the file
                \*   "scan"    in the loop of scan_tokens
                \*   "scanned" scan_tokens has returned
                \*   "parsed"  Parser::parse has returned an expression
                \*   "ran"     run has returned
                \*   "exit"    run_prompt or run_file has returned
                \*   "usage"   main has printed the usage and exited with 64
                \*   "panic"   the process has panicked

vars == <<source, tokens, start, current, line, errors, parser, ast, result,
          stdin, args, pc>>

\* ------------------------------------------------------------------ bounds
\* Longest enumerated source string, in characters.
MaxLen == 4

\* ------------------------------------------------------------- Option<T>
None == [some |-> FALSE]
Some(v) == [some |-> TRUE, val |-> v]

\* -------------------------------------------------------------- characters
NUL == "NUL"
QUOTE == "\""
NEWLINE == "\n"
\* Characters outside ASCII, by code point: e-acute, vulgar fraction one half,
\* euro sign.
EAcute == "U+00E9"
OneHalf == "U+00BD"
Euro == "U+20AC"

AsciiDigits == {"0", "1", "2", "3", "4", "5", "6", "7", "8", "9"}
AsciiLetters ==
    {"a", "b", "c", "d", "e", "f", "g", "h", "i", "j", "k", "l", "m",
     "n", "o", "p", "q", "r", "s", "t", "u", "v", "w", "x", "y", "z",
     "A", "B", "C", "D", "E", "F", "G", "H", "I", "J", "K", "L", "M",
     "N", "O", "P", "Q", "R", "S", "T", "U", "V", "W", "X", "Y", "Z"}

\* char::len_utf8: the bytes the character takes in the String.
Utf8Len(c) ==
    IF c \in {EAcute, OneHalf, "U+0085", "U+00A0"} THEN 2
    ELSE IF c \in {Euro, "U+1680", "U+2000", "U+2001", "U+2002", "U+2003",
                   "U+2004", "U+2005", "U+2006", "U+2007", "U+2008", "U+2009",
                   "U+200A", "U+2028", "U+2029", "U+202F", "U+205F", "U+3000"}
    THEN 3
    ELSE 1

\* char::is_numeric: the Unicode general categories Nd, Nl, No.
IsNumeric(c) == c \in AsciiDigits \cup {OneHalf}

\* char::is_alphabetic: the Unicode Alphabetic property.
IsAlphabetic(c) == c \in AsciiLetters \cup {EAcute}

\* char::is_alphanumeric
IsAlphanumeric(c) == IsAlphabetic(c) \/ IsNumeric(c)

\* ------------------------------------------------------------ str slicing
RECURSIVE ByteLen(_)
\* String::len: the length of the source in bytes.
ByteLen(s) == IF s = <<>> THEN 0 ELSE Utf8Len(Head(s)) + ByteLen(Tail(s))

\* The byte offset at which character i (1-based) of s starts.
ByteStart(s, i) == ByteLen(SubSeq(s, 1, i - 1))

\* str::is_char_boundary
IsCharBoundary(s, b) == \E i \in 1..(Len(s) + 1) : ByteStart(s, i) = b

\* str::get(a..b): the characters lying in bytes [a, b), or None when the
\* range is empty-reversed, runs past the end or cuts a character.
StrGet(s, a, b) ==
    IF a > b \/ b > ByteLen(s) \/ ~IsCharBoundary(s, a) \/ ~IsCharBoundary(s, b)
    THEN None
    ELSE LET i == CHOOSE k \in 1..(Len(s) + 1) : ByteStart(s, k) = a
             j == CHOOSE k \in 1..(Len(s) + 1) : ByteStart(s, k) = b
         IN Some(SubSeq(s, i, j - 1))

\* ------------------------------------------------------- natural numbers
\* The naturals the f64 arithmetic needs are wider than the integers at
\* hand: a natural is the sequence of its digits in base LimbBase, lowest
\* first, with no zero at the top; zero is <<>>.
LimbBits == 15
LimbBase == 2^LimbBits

Min(a, b) == IF a < b THEN a ELSE b
Max(a, b) == IF a < b THEN b ELSE a

\* The operations are written without recursion over the digits where
\* they can be, carries by looking back for the digit they come from, so
\* that their depth does not grow with the numbers.

\* a without the zeros at the top.
BigTrim(a) ==
    IF \A i \in 1..Len(a) : a[i] = 0 THEN <<>>
    ELSE SubSeq(a, 1, CHOOSE i \in 1..Len(a) :
                          a[i] # 0 /\ \A j \in (i + 1)..Len(a) : a[j] = 0)

\* The natural n, an integer at hand.
BigOfNat(n) ==
    BigTrim(<<n % LimbBase, (n \div LimbBase) % LimbBase,
              n \div (LimbBase * LimbBase)>>)

\* Digit i of a, zero outside it.
Digit(a, i) == IF 1 <= i /\ i <= Len(a) THEN a[i] ELSE 0

\* a + b: there is a carry into digit i when some digit below overflows and
\* every digit between passes a carry on.
BigAdd(a, b) ==
    LET settle(sum) ==
            BigTrim([i \in DOMAIN sum |->
                        (sum[i]
                            + (IF \E j \in 1..(i - 1) :
                                      /\ sum[j] >= LimbBase
                                      /\ \A k \in (j + 1)..(i - 1) :
                                             sum[k] = LimbBase - 1
                               THEN 1 ELSE 0)) % LimbBase])
    IN settle([i \in 1..(Max(Len(a), Len(b)) + 1) |-> Digit(a, i) + Digit(b, i)])

\* a - b, for a >= b: digit i is borrowed from when some digit of a below is
\* less than that of b and every digit between is equal to it.
BigSub(a, b) ==
    LET settle(diff) ==
            BigTrim([i \in DOMAIN diff |->
                        (diff[i] + LimbBase
                            - (IF \E j \in 1..(i - 1) :
                                      /\ diff[j] < 0
                                      /\ \A k \in (j + 1)..(i - 1) : diff[k] = 0
                               THEN 1 ELSE 0)) % LimbBase])
    IN settle([i \in 1..Len(a) |-> a[i] - Digit(b, i)])

\* a * k, for k up to LimbBase: the low halves of the products of the
\* digits, plus their high halves one digit up.
BigMulSmall(a, k) ==
    BigAdd([i \in 1..Len(a) |-> (a[i] * k) % LimbBase],
           <<0>> \o [i \in 1..Len(a) |-> (a[i] * k) \div LimbBase])

RECURSIVE SumRange(_, _, _)
\* s[lo] + ... + s[hi]
SumRange(s, lo, hi) ==
    IF lo > hi THEN 0
    ELSE IF lo = hi THEN s[lo]
    ELSE SumRange(s, lo, (lo + hi) \div 2) + SumRange(s, ((lo + hi) \div 2) + 1, hi)

\* On digit k of a * b fall the low halves of the products of the digits of
\* its column and the high halves of those of the column below.
ColumnSum(a, b, k) ==
    LET prod(i, j) == IF 1 <= j /\ j <= Len(b) THEN a[i] * b[j] ELSE 0
    IN SumRange([i \in 1..Len(a) |->
                    (prod(i, k + 1 - i) % LimbBase)
                        + (prod(i, k - i) \div LimbBase)], 1, Len(a))

\* a * b, for a of less than 2^14 digits: the sum of a column is then below
\* LimbBase squared, a sum of two digits.
BigMul(a, b) ==
    LET settle(sums) ==
            BigAdd([k \in DOMAIN sums |-> sums[k] % LimbBase],
                   <<0>> \o [k \in DOMAIN sums |-> sums[k] \div LimbBase])
    IN IF a = <<>> \/ b = <<>> THEN <<>>
       ELSE settle([k \in 1..(Len(a) + Len(b)) |-> ColumnSum(a, b, k)])

\* -1, 0 or 1 as a is below, equal to or above b
BigCmp(a, b) ==
    IF Len(a) < Len(b) THEN -1
    ELSE IF Len(a) > Len(b) THEN 1
    ELSE IF a = b THEN 0
    ELSE LET top == CHOOSE i \in 1..Len(a) :
                        a[i] # b[i] /\ \A j \in (i + 1)..Len(a) : a[j] = b[j]
         IN IF a[top] < b[top] THEN -1 ELSE 1

\* The number of bits of n, an integer below LimbBase.
IntBitLen(n) == CHOOSE k \in 0..LimbBits : n < 2^k /\ (k > 0 => n >= 2^(k - 1))

\* The number of bits of a: 0 for zero.
BigBitLen(a) ==
    IF a = <<>> THEN 0 ELSE LimbBits * (Len(a) - 1) + IntBitLen(a[Len(a)])

\* Bit i of a, the lowest being bit 0.
BigBit(a, i) == (Digit(a, (i \div LimbBits) + 1) \div 2^(i % LimbBits)) % 2

\* Some bit of a below bit n is set.
BigLowNonzero(a, n) ==
    \/ \E j \in 1..Min(n \div LimbBits, Len(a)) : a[j] # 0
    \/ Digit(a, (n \div LimbBits) + 1) % 2^(n % LimbBits) # 0

\* The number of zero bits below the lowest set bit of a, for a # 0.
BigTrailingZeros(a) ==
    LET j == CHOOSE k \in 1..Len(a) : a[k] # 0 /\ \A i \in 1..(k - 1) : a[i] = 0
    IN LimbBits * (j - 1)
           + CHOOSE k \in 0..LimbBits : a[j] % 2^k = 0 /\ a[j] % 2^(k + 1) # 0

\* a * 2^n: each digit takes the low bits of the one in its place and the
\* high bits of the one below.
BigShl(a, n) ==
    LET s == n % LimbBits
    IN IF a = <<>> THEN <<>>
       ELSE [i \in 1..(n \div LimbBits) |-> 0]
                \o BigTrim([i \in 1..(Len(a) + 1) |->
                                ((Digit(a, i) * 2^s) % LimbBase)
                                    + (Digit(a, i - 1) \div 2^(LimbBits - s))])

\* floor(a / 2^n)
BigShr(a, n) ==
    LET s == n % LimbBits
        up == n \div LimbBits
    IN BigTrim([i \in 1..(Len(a) - up) |->
                   (Digit(a, i + up) \div 2^s)
                       + ((Digit(a, i + up + 1) % 2^s) * 2^(LimbBits - s))])

\* The largest d with b * d <= r, and the product p, for r < b * LimbBase and
\* the top digit of b at LimbBase / 2 or more: d lies between the quotients
\* of the top of r by the top digit of b, and by that digit and one.
BigDivDigit(r, b) ==
    LET n == Len(b)
        top == Digit(r, n + 1) * LimbBase + Digit(r, n)
        largest(fit) == CHOOSE x \in fit : \A y \in fit : y.d <= x.d
    IN largest({x \in {[d |-> d, p |-> BigMulSmall(b, d)] :
                          d \in (top \div (b[n] + 1))
                                    ..Min(top \div b[n], LimbBase - 1)} :
                   BigCmp(x.p, r) <= 0})

RECURSIVE BigDivLongFrom(_, _, _, _, _)
\* Long division digit by digit, from digit i of a down; r is what is left of
\* the digits above, q the quotient so far.
BigDivLongFrom(a, b, i, q, r) ==
    IF i = 0 THEN [q |-> BigTrim(q), r |-> r]
    ELSE LET bring(r2) ==
                 LET take(x) ==
                         BigDivLongFrom(a, b, i - 1, <<x.d>> \o q, BigSub(r2, x.p))
                 IN take(BigDivDigit(r2, b))
         IN bring(BigTrim(<<a[i]>> \o r))

\* The quotient of a by b, for b # 0, and whether it is exact. Both are first
\* scaled for the top digit of b to have its top bit set, which keeps the
\* digits tried few; the digits of a above the first place where the quotient
\* can have a digit are below b.
BigDiv(a, b) ==
    LET divide(as, bs) ==
            LET i == Len(as) - Len(bs) + 1
                whole(x) == [q |-> x.q, exact |-> x.r = <<>>]
            IN IF i < 1 THEN [q |-> <<>>, exact |-> as = <<>>]
               ELSE whole(BigDivLongFrom(as, bs, i, <<>>,
                                         SubSeq(as, i + 1, Len(as))))
    IN IF b = <<1>> THEN [q |-> a, exact |-> TRUE]
       ELSE divide(BigShl(a, LimbBits - IntBitLen(b[Len(b)])),
                   BigShl(b, LimbBits - IntBitLen(b[Len(b)])))

RECURSIVE BigPow10(_)
\* 10^k, by halves.
BigPow10(k) ==
    IF k < 4 THEN <<10^k>>
    ELSE BigMul(BigPow10(k \div 2), BigPow10(k - (k \div 2)))

\* --------------------------------------------------------------------- f64
\* An f64 is [cls, neg, m, e]: NaN, an infinity with its sign, or the finite
\* value (-1)^neg * m * 2^e, m a natural below 2^53 and odd, e within
\* -1074..1023; zero is m = <<>>, e = 0, with its sign.
NaN == [cls |-> "nan", neg |-> FALSE, m |-> <<>>, e |-> 0]
Inf(neg) == [cls |-> "inf", neg |-> neg, m |-> <<>>, e |-> 0]
Zero(neg) == [cls |-> "finite", neg |-> neg, m |-> <<>>, e |-> 0]

F64IsNaN(x) == x.cls = "nan"
F64IsInf(x) == x.cls = "inf"
F64IsZero(x) == x.cls = "finite" /\ x.m = <<>>

MantissaBits == 53
MinExponent == -1074
MaxExponent == 1023

\* The finite value m * 2^e written the one way: m odd.
Canonical(neg, m, e) ==
    LET odd(tz) == [cls |-> "finite", neg |-> neg, m |-> BigShr(m, tz), e |-> e + tz]
    IN IF m = <<>> THEN Zero(neg) ELSE odd(BigTrailingZeros(m))

\* The f64 nearest to (-1)^neg * (m + x) * 2^e, ties to even, where x is 0,
\* or, when sticky, some value strictly between 0 and 1, m then being of
\* MantissaBits + 2 bits or more; what lies beyond the largest finite f64 by
\* half a unit or more is an infinity. s is the number of bits of m that
\* the result has no room for.
Round(neg, m, e, sticky) ==
    LET drop(s) ==
            LET nearest(kept) ==
                    LET half == s > 0 /\ BigBit(m, s - 1) = 1
                        below == sticky \/ (s > 0 /\ BigLowNonzero(m, s - 1))
                        even == kept = <<>> \/ kept[1] % 2 = 0
                        fit(r) == IF BigBitLen(r) + e + s - 1 > MaxExponent
                                  THEN Inf(neg)
                                  ELSE Canonical(neg, r, e + s)
                    IN fit(IF half /\ (below \/ ~even)
                           THEN BigAdd(kept, <<1>>) ELSE kept)
            IN nearest(BigShr(m, s))
    IN IF m = <<>> THEN Zero(neg)
       ELSE drop(Max(Max(e + BigBitLen(m) - MantissaBits, MinExponent) - e, 0))

\* The f64 nearest to (-1)^neg * (n / d) * 2^e, n and d naturals, d # 0: the
\* quotient is taken of n with bits enough below for it to have
\* MantissaBits + 2 bits or more.
RoundRatio(neg, n, d, e) ==
    LET scaled(k) ==
            LET nearest(x) == Round(neg, x.q, e - k, ~x.exact)
            IN nearest(BigDiv(BigShl(n, k), d))
    IN IF n = <<>> THEN Zero(neg)
       ELSE scaled(Max(0, MantissaBits + 3 + BigBitLen(d) - BigBitLen(n)))

\* The f64 that is the integer n: exact, n being of less than MantissaBits
\* bits.
F64OfInt(n) == Canonical(n < 0, BigOfNat(IF n < 0 THEN -n ELSE n), 0)

\* -x
F64Neg(x) == IF F64IsNaN(x) THEN x ELSE [x EXCEPT !.neg = ~x.neg]

\* l + r: an operand whose top bit lies more than two bits below the last bit
\* of the other leaves the other as it is.
F64Add(l, r) ==
    LET aligned(a, b) ==
            LET signed(c) ==
                    IF l.neg = r.neg THEN Round(l.neg, BigAdd(a, b), Min(l.e, r.e), FALSE)
                    ELSE IF c = 0 THEN Zero(FALSE)
                    ELSE Round(IF c > 0 THEN l.neg ELSE r.neg,
                               BigSub(IF c > 0 THEN a ELSE b, IF c > 0 THEN b ELSE a),
                               Min(l.e, r.e), FALSE)
            IN signed(BigCmp(a, b))
        tops(tl, tr) ==
            IF tl > tr + MantissaBits + 2 THEN l
            ELSE IF tr > tl + MantissaBits + 2 THEN r
            ELSE aligned(BigShl(l.m, l.e - Min(l.e, r.e)),
                         BigShl(r.m, r.e - Min(l.e, r.e)))
    IN CASE F64IsNaN(l) \/ F64IsNaN(r) -> NaN
         [] F64IsInf(l) /\ F64IsInf(r) -> IF l.neg = r.neg THEN l ELSE NaN
         [] F64IsInf(l) -> l
         [] F64IsInf(r) -> r
         [] F64IsZero(l) /\ F64IsZero(r) -> Zero(l.neg /\ r.neg)
         [] F64IsZero(l) -> r
         [] F64IsZero(r) -> l
         [] OTHER -> tops(l.e + BigBitLen(l.m), r.e + BigBitLen(r.m))

\* l - r
F64Sub(l, r) == F64Add(l, F64Neg(r))

\* l * r
F64Mul(l, r) ==
    LET neg == l.neg # r.neg
    IN CASE F64IsNaN(l) \/ F64IsNaN(r) -> NaN
         [] (F64IsInf(l) /\ F64IsZero(r)) \/ (F64IsZero(l) /\ F64IsInf(r)) -> NaN
         [] F64IsInf(l) \/ F64IsInf(r) -> Inf(neg)
         [] F64IsZero(l) \/ F64IsZero(r) -> Zero(neg)
         [] OTHER -> Round(neg, BigMul(l.m, r.m), l.e + r.e, FALSE)

\* l / r
F64Div(l, r) ==
    LET neg == l.neg # r.neg
    IN CASE F64IsNaN(l) \/ F64IsNaN(r) -> NaN
         [] (F64IsInf(l) /\ F64IsInf(r)) \/ (F64IsZero(l) /\ F64IsZero(r)) -> NaN
         [] F64IsInf(l) \/ F64IsZero(r) -> Inf(neg)
         [] F64IsInf(r) \/ F64IsZero(l) -> Zero(neg)
         [] OTHER -> RoundRatio(neg, l.m, r.m, l.e - r.e)

\* l < r
F64Lt(l, r) ==
    LET \* |a| < |b|, a and b finite
        below(a, b) ==
            LET tops(ta, tb) ==
                    \/ ta < tb
                    \/ /\ ta = tb
                       /\ BigCmp(BigShl(a.m, a.e - Min(a.e, b.e)),
                                 BigShl(b.m, b.e - Min(a.e, b.e))) < 0
            IN IF a.m = <<>> \/ b.m = <<>> THEN b.m # <<>>
               ELSE tops(a.e + BigBitLen(a.m), b.e + BigBitLen(b.m))
    IN CASE F64IsNaN(l) \/ F64IsNaN(r) -> FALSE
         [] F64IsInf(l) -> l.neg /\ r # l
         [] F64IsInf(r) -> ~r.neg
         [] F64IsZero(l) /\ F64IsZero(r) -> FALSE
         [] l.neg # r.neg -> l.neg
         [] OTHER -> below(IF l.neg THEN r ELSE l, IF l.neg THEN l ELSE r)

\* l == r
F64Eq(l, r) ==
    /\ ~F64IsNaN(l)
    /\ ~F64IsNaN(r)
    /\ (F64IsZero(l) /\ F64IsZero(r)) \/ l = r

\* ------------------------------------------------------------------ values
Number(r) == [t |-> "Number", num |-> r]
Text(cs) == [t |-> "Text", text |-> cs]
Boolean(b) == [t |-> "Boolean", bool |-> b]

\* ------------------------------------------------- <f64 as FromStr>::from_str
\*   Float  ::= Sign? ( 'inf' | 'infinity' | 'nan' | Number )
\*   Number ::= ( Digit+ | Digit+ '.' Digit* | Digit* '.' Digit+ ) Exp?
\*   Exp    ::= 'e' Sign? Digit+
\* letters in either case; every other text is an Err.
DigitValue(c) == CHOOSE n \in 0..9 : ToString(n) = c

IsDigits(cs) == \A i \in 1..Len(cs) : cs[i] \in AsciiDigits

RECURSIVE BigOfDigits(_, _, _)
\* The natural the digits lo..hi of a digit string denote.
BigOfDigits(cs, lo, hi) ==
    IF lo > hi THEN <<>>
    ELSE IF lo = hi THEN BigOfNat(DigitValue(cs[lo]))
    ELSE LET mid == (lo + hi) \div 2
         IN BigAdd(BigMul(BigOfDigits(cs, lo, mid), BigPow10(hi - mid)),
                   BigOfDigits(cs, mid + 1, hi))

RECURSIVE SmallOfDigits(_, _)
\* The integer a digit string denotes, or 10^6 when it is more: the powers
\* of ten from there on give an infinity, or zero, whatever the digits of a
\* text of less than a million characters.
SmallOfDigits(cs, acc) ==
    IF cs = <<>> \/ acc >= 10^6 THEN Min(acc, 10^6)
    ELSE SmallOfDigits(Tail(cs), 10 * acc + DigitValue(Head(cs)))

\* The f64 nearest to (-1)^neg * digits * 10^p: as 10^p > 2^(3p), the
\* exponents far out give an infinity or zero without the power.
F64OfDecimal(neg, digits, p) ==
    LET scale(pow) ==
            RoundRatio(neg, IF p >= 0 THEN BigMul(digits, pow) ELSE digits,
                       IF p >= 0 THEN <<1>> ELSE pow, 0)
    IN IF digits = <<>> THEN Zero(neg)
       ELSE IF 3 * p > MaxExponent + 1 THEN Inf(neg)
       ELSE IF 3 * (-p) > BigBitLen(digits) - MinExponent + 1 THEN Zero(neg)
       ELSE scale(BigPow10(IF p >= 0 THEN p ELSE -p))

ParseF64(cs) ==
    LET signed == cs # <<>> /\ Head(cs) \in {"+", "-"}
        lower(c) ==
            CASE c = "E" -> "e" [] c = "I" -> "i" [] c = "N" -> "n"
              [] c = "F" -> "f" [] c = "T" -> "t" [] c = "Y" -> "y"
              [] c = "A" -> "a" [] OTHER -> c
        unsigned == IF signed THEN Tail(cs) ELSE cs
        \* where c first stands in s, or past its end
        first(s, c) ==
            IF \A i \in 1..Len(s) : s[i] # c THEN Len(s) + 1
            ELSE CHOOSE i \in 1..Len(s) : s[i] = c /\ \A j \in 1..(i - 1) : s[j] # c
        float(neg, body) ==
            LET number(mant, hasExp, exp) ==
                    LET expSigned == exp # <<>> /\ Head(exp) \in {"+", "-"}
                        digits(int, frac, expDigits) ==
                            IF /\ IsDigits(int)
                               /\ IsDigits(frac)
                               /\ int \o frac # <<>>
                               /\ hasExp => (expDigits # <<>> /\ IsDigits(expDigits))
                            THEN Some(F64OfDecimal(
                                     neg,
                                     BigOfDigits(int \o frac, 1, Len(int) + Len(frac)),
                                     ((IF expSigned /\ Head(exp) = "-" THEN -1 ELSE 1)
                                          * SmallOfDigits(expDigits, 0)) - Len(frac)))
                            ELSE None
                        parts(dot) ==
                            digits(SubSeq(mant, 1, dot - 1),
                                   SubSeq(mant, dot + 1, Len(mant)),
                                   IF expSigned THEN Tail(exp) ELSE exp)
                    IN parts(first(mant, "."))
                split(epos) ==
                    number(SubSeq(body, 1, epos - 1), epos <= Len(body),
                           SubSeq(body, epos + 1, Len(body)))
            IN IF body \in {<<"i", "n", "f">>,
                            <<"i", "n", "f", "i", "n", "i", "t", "y">>}
               THEN Some(Inf(neg))
               ELSE IF body = <<"n", "a", "n">> THEN Some(NaN)
               ELSE split(first(body, "e"))
    IN float(signed /\ Head(cs) = "-",
             [i \in 1..Len(unsigned) |-> lower(unsigned[i])])

\* ------------------------------------------------------------------ tokens
\* Token::new
Token(token_type, lexeme, literal, ln) ==
    [token_type |-> token_type, lexeme |-> lexeme, literal |-> literal, line |-> ln]

\* KEYWORDS: the keyword table, by spelling.
KEYWORDS ==
    ( <<"a", "n", "d">> :> "And" ) @@
    ( <<"c", "l", "a", "s", "s">> :> "Class" ) @@
    ( <<"e", "l", "s", "e">> :> "Else" ) @@
    ( <<"f", "a", "l", "s", "e">> :> "False" ) @@
    ( <<"f", "o", "r">> :> "For" ) @@
    ( <<"f", "u", "n">> :> "Fun" ) @@
    ( <<"i", "f">> :> "If" ) @@
    ( <<"n", "i", "l">> :> "Nil" ) @@
    ( <<"o", "r">> :> "Or" ) @@
    ( <<"p", "r", "i", "n", "t">> :> "Print" ) @@
    ( <<"r", "e", "t", "u", "r", "n">> :> "Return" ) @@
    ( <<"s", "u", "p", "e", "r">> :> "Super" ) @@
    ( <<"t", "h", "i", "s">> :> "This" ) @@
    ( <<"t", "r", "u", "e">> :> "True" ) @@
    ( <<"v", "a", "r">> :> "Var" ) @@
    ( <<"w", "h", "i", "l", "e">> :> "While" )

\* ----------------------------------------------------------------- Scanner
\* The Scanner struct, as a record; Scanner::new.
Scanner_new(src) ==
    [source |-> src, tokens |-> <<>>, start |-> 0, current |-> 0, line |-> 1]

\* Result<_, ScanError> and a panic, each with the scanner as it is left.
ScanOk(s, v) == [kind |-> "Ok", sc |-> s, val |-> v]
ScanErr(s, m) == [kind |-> "Err", sc |-> s, message |-> m]
ScanPanic(s) == [kind |-> "panic", sc |-> s]

Scanner_is_at_end(s) == s.current >= Len(s.source)

\* fn advance: the character under the cursor, if any; the cursor moves on
\* whether or not there was one.
Scanner_advance(s) == [s EXCEPT !.current = @ + 1]

Scanner_peek(s) ==
    IF s.current < Len(s.source) THEN s.source[s.current + 1] ELSE NUL

Scanner_peek_next(s) ==
    IF s.current + 1 < Len(s.source) THEN s.source[s.current + 2] ELSE NUL

\* fn is_match, as the scanner it leaves: the cursor moves over `expected`.
Scanner_matches(s, expected) ==
    s.current < Len(s.source) /\ s.source[s.current + 1] = expected

Scanner_is_match(s, expected) ==
    IF Scanner_matches(s, expected) THEN Scanner_advance(s) ELSE s

\* fn make_token: ScanOk(token), or a panic when the lexeme's byte range is no
\* slice of the source (the unwrap of None).
Scanner_make_token(s, token_type, literal) ==
    LET text == StrGet(s.source, s.start, s.current)
    IN IF text.some
       THEN ScanOk(s, Some(Token(token_type, text.val, literal, s.line)))
       ELSE ScanPanic(s)

Scanner_make_empty_token(s, token_type) ==
    Scanner_make_token(s, token_type, None)

RECURSIVE SkipComment_ThroughNewline(_)
\* The comment loop taking the newline with it.
SkipComment_ThroughNewline(s) ==
    IF Scanner_is_at_end(s) THEN s
    ELSE IF Scanner_peek(s) = NEWLINE THEN Scanner_advance(s)
    ELSE SkipComment_ThroughNewline(Scanner_advance(s))

RECURSIVE SkipComment(_)
\* while *self.peek() != '\n' && !self.is_at_end() { self.advance(); }
SkipComment(s) ==
    IF Scanner_peek(s) # NEWLINE /\ ~Scanner_is_at_end(s)
    THEN SkipComment(Scanner_advance(s))
    ELSE s

RECURSIVE StringBody_NoLineCount(_)
\* The loop of parse_string passing newlines without counting them.
StringBody_NoLineCount(s) ==
    IF Scanner_peek(s) # QUOTE /\ ~Scanner_is_at_end(s)
    THEN StringBody_NoLineCount(Scanner_advance(s))
    ELSE s

RECURSIVE StringBody(_)
\* The loop of parse_string: up to the closing quote or the end, counting
\* the newlines passed.
StringBody(s) ==
    IF Scanner_peek(s) # QUOTE /\ ~Scanner_is_at_end(s)
    THEN StringBody(Scanner_advance(
             IF Scanner_peek(s) = NEWLINE THEN [s EXCEPT !.line = @ + 1] ELSE s))
    ELSE s

\* fn parse_string
Scanner_parse_string(s) ==
    LET s1 == Scanner_advance(StringBody(s))
        value == StrGet(s1.source, s1.start + 1, s1.current - 1)
    IN IF value.some
       THEN Scanner_make_token(s1, "String", Some(Text(value.val)))
       ELSE ScanErr(s1, <<"Unterminated string.">>)

RECURSIVE SkipNumeric(_)
\* while self.peek().is_numeric() { self.advance(); }
SkipNumeric(s) ==
    IF IsNumeric(Scanner_peek(s)) THEN SkipNumeric(Scanner_advance(s)) ELSE s

\* The cursor movement of parse_number: the digit run, then '.' and a second
\* run when a numeric character follows the '.'.
NumberEnd(s) ==
    LET s1 == SkipNumeric(s)
    IN IF Scanner_peek(s1) = "." /\ IsNumeric(Scanner_peek_next(s1))
       THEN SkipNumeric(Scanner_advance(s1))
       ELSE s1

\* fn parse_number: both unwraps (of the slice, of the parsed f64) can panic.
Scanner_parse_number(s) ==
    LET parse(s1, text) ==
            LET token(val) ==
                    IF val.some
                    THEN Scanner_make_token(s1, "Number", Some(Number(val.val)))
                    ELSE ScanPanic(s1)
            IN token(IF text.some THEN ParseF64(text.val) ELSE None)
        slice(s1) == parse(s1, StrGet(s1.source, s1.start, s1.current))
    IN slice(NumberEnd(s))

RECURSIVE SkipAlphanumeric(_)
\* while self.peek().is_alphanumeric() { self.advance(); }
SkipAlphanumeric(s) ==
    IF IsAlphanumeric(Scanner_peek(s))
    THEN SkipAlphanumeric(Scanner_advance(s))
    ELSE s

\* fn parse_identifier
Scanner_parse_identifier(s) ==
    LET s1 == SkipAlphanumeric(s)
        text == StrGet(s1.source, s1.start, s1.current)
    IN IF ~text.some THEN ScanPanic(s1)
       ELSE Scanner_make_empty_token(
                s1,
                IF text.val \in DOMAIN KEYWORDS THEN KEYWORDS[text.val]
                ELSE "Identifier")

\* The single-character tokens of scan_token.
SingleChar ==
    ( "(" :> "LeftParen" ) @@ ( ")" :> "RightParen" ) @@
    ( "{" :> "LeftBrace" ) @@ ( "}" :> "RightBrace" ) @@
    ( "," :> "Comma" ) @@ ( "." :> "Dot" ) @@ ( "-" :> "Minus" ) @@
    ( "+" :> "Plus" ) @@ ( ";" :> "Semicolon" ) @@ ( "*" :> "Star" )

\* The characters that pair with '=': <<alone, followed by '='>>.
WithEqual ==
    ( "!" :> <<"Bang", "BangEqual">> ) @@
    ( "=" :> <<"Equal", "EqualEqual">> ) @@
    ( "<" :> <<"Less", "LessEqual">> ) @@
    ( ">" :> <<"Greater", "GreaterEqual">> )

\* fn scan_token, on a scanner whose start is already set.
Scanner_scan_token(s) ==
    IF s.current >= Len(s.source) THEN ScanOk(Scanner_advance(s), None)
    ELSE
    LET c == s.source[s.current + 1]
        s1 == Scanner_advance(s)
    IN CASE c \in DOMAIN SingleChar ->
              Scanner_make_empty_token(s1, SingleChar[c])
         [] c \in DOMAIN WithEqual ->
              Scanner_make_empty_token(
                  Scanner_is_match(s1, "="),
                  IF Scanner_matches(s1, "=") THEN WithEqual[c][2]
                  ELSE WithEqual[c][1])
         [] c = "/" ->
              IF Scanner_matches(s1, "/")
              THEN ScanOk(SkipComment(Scanner_is_match(s1, "/")), None)
              ELSE Scanner_make_empty_token(s1, "Slash")
         [] c \in {" ", "\r", "\t"} -> ScanOk(s1, None)
         [] c = NEWLINE -> ScanOk([s1 EXCEPT !.line = @ + 1], None)
         [] c = QUOTE -> Scanner_parse_string(s1)
         [] OTHER ->
              IF IsNumeric(c) THEN Scanner_parse_number(s1)
              ELSE IF IsAlphabetic(c) THEN Scanner_parse_identifier(s1)
              ELSE ScanErr(s1, <<"Unexpected character: ", c>>)

\* One turn of the loop of scan_tokens: what it does to the scanner and what
\* it reports.  [kind, sc, errors]
ScanStep(s) ==
    LET match(r) ==
            CASE r.kind = "panic" -> [kind |-> "panic", sc |-> r.sc, errors |-> <<>>]
              [] r.kind = "Err" ->
                   [kind |-> "scan", sc |-> r.sc,
                    errors |-> << <<r.sc.line, r.message>> >>]
              [] r.kind = "Ok" /\ r.val.some ->
                   [kind |-> "scan",
                    sc |-> [r.sc EXCEPT !.tokens = Append(@, r.val.val)],
                    errors |-> <<>>]
              [] OTHER -> [kind |-> "scan", sc |-> r.sc, errors |-> <<>>]
    IN match(Scanner_scan_token([s EXCEPT !.start = s.current]))

\* The end of scan_tokens: the Eof token.
PushEof(s) ==
    [s EXCEPT !.tokens = Append(@, Token("Eof", <<>>, None, s.line))]

\* ----------------------------------------------------- scanning, stepwise
\* The characters sources are enumerated over.
ScanAlphabet == {QUOTE, "1", ".", "a", "@", NEWLINE, EAcute, OneHalf}

SourcesOver(alphabet, n) == UNION {[1..k -> alphabet] : k \in 0..n}

\* The sources of the repository's tests, and the examples of the
\* specification, beside the enumerated ones.
ExampleSources ==
    { <<"-", "1", "2", "3", " ", "*", " ", "4", "5", ".", "6", "7">>,
      <<QUOTE, "h", "e", "l", "l", "o", QUOTE>>,
      <<"1", " ", "+", " ", "2", " ", "/", "/", " ", "3", " ", "+", " ", "4">>,
      <<"1", ".", "2", ".", "3">>,
      <<QUOTE, Euro, "7", QUOTE, "1">> }

\* Sources of layout: comments, blanks and newlines between and inside tokens.
LayoutAlphabet == {"1", "/", " ", "\t", NEWLINE, QUOTE, EAcute}

LayoutExamples ==
    { <<"1", "\r", "\t", " ", NEWLINE, "1">>,
      <<"1", " ", "/", "/", " ", "a", NEWLINE, QUOTE, NEWLINE, "a", QUOTE, " ", "1">>,
      <<QUOTE, "a", QUOTE, " ", "/", "/", " ", QUOTE, NEWLINE, "\r", NEWLINE, "+">>,
      <<"/", "/", EAcute, NEWLINE, "/">>,
      <<"/", "/", EAcute, NEWLINE, "-", "0", "0">>,
      <<"/", "/", EAcute, EAcute, EAcute, EAcute, "1", "e", "5", NEWLINE,
        "1", "2", "3">> }

LayoutSources == SourcesOver(LayoutAlphabet, MaxLen) \cup LayoutExamples

RECURSIVE ScanLoop(_, _)
\* The loop of scan_tokens, from the scanner s with errs reported so far.
ScanLoop(s, errs) ==
    IF Scanner_is_at_end(s)
    THEN [panic |-> FALSE, tokens |-> PushEof(s).tokens, errors |-> errs]
    ELSE LET turn(r) ==
                 IF r.kind = "panic"
                 THEN [panic |-> TRUE, tokens |-> r.sc.tokens, errors |-> errs]
                 ELSE ScanLoop(r.sc, errs \o r.errors)
         IN turn(ScanStep(s))

\* Scanner::new(src).scan_tokens(): the tokens returned and the errors
\* reported, or a panic.
Scanner_scan_tokens(src) == ScanLoop(Scanner_new(src), <<>>)

ScannerState == [source |-> source, tokens |-> tokens, start |-> start,
                 current |-> current, line |-> line]

SetScanner(s) ==
    /\ tokens' = s.tokens
    /\ start' = s.start
    /\ current' = s.current
    /\ line' = s.line

ScanInit ==
    /\ source \in SourcesOver(ScanAlphabet, MaxLen) \cup ExampleSources
                   \cup LayoutSources
    /\ tokens = <<>>
    /\ start = 0
    /\ current = 0
    /\ line = 1
    /\ errors = <<>>
    /\ parser = None
    /\ ast = None
    /\ result = None
    /\ stdin = <<>>
    /\ args = <<"loxide", "script.lox">>
    /\ pc = "scan"

\* One turn of `while !self.is_at_end()` in scan_tokens.
ScanToken ==
    /\ pc = "scan"
    /\ ~Scanner_is_at_end(ScannerState)
    /\ LET turn(r) ==
               /\ SetScanner(r.sc)
               /\ errors' = errors \o r.errors
               /\ pc' = r.kind
       IN turn(ScanStep(ScannerState))
    /\ UNCHANGED <<source, parser, ast, result, stdin, args>>

\* The loop of scan_tokens is over: Eof is pushed and the tokens returned.
ScanEof ==
    /\ pc = "scan"
    /\ Scanner_is_at_end(ScannerState)
    /\ SetScanner(PushEof(ScannerState))
    /\ pc' = "scanned"
    /\ UNCHANGED <<source, errors, parser, ast, result, stdin, args>>

ScanNext == ScanToken \/ ScanEof

SpecScan == ScanInit /\ [][ScanNext]_vars

\* ------------------------------------------------------------------- Expr
Literal(value) == [node |-> "Literal", value |-> value]
Grouping(e) == [node |-> "Grouping", expression |-> e]
Unary(operator, right) == [node |-> "Unary", operator |-> operator, right |-> right]
Binary(left, operator, right) ==
    [node |-> "Binary", left |-> left, operator |-> operator, right |-> right]

\* ------------------------------------------------------------------ Parser
\* Parser::new.  `reports` is what the parser has handed to lox::error.
Parser_new(toks) == [tokens |-> toks, current |-> 0, reports |-> <<>>]

\* Result<Expr, ParseError> and a panic, each with the parser as it is left.
ParseOk(p, e) == [kind |-> "Ok", p |-> p, expr |-> e]
ParseErr(p, m) == [kind |-> "Err", p |-> p, message |-> m]
ParsePanic(p) == [kind |-> "panic", p |-> p]

\* fn peek: self.tokens.get(self.current)
Parser_peek(p) ==
    IF p.current < Len(p.tokens) THEN Some(p.tokens[p.current + 1]) ELSE None

\* fn previous: self.tokens.get(self.current - 1), before its unwrap.
Parser_previous(p) ==
    IF 1 <= p.current /\ p.current <= Len(p.tokens)
    THEN Some(p.tokens[p.current])
    ELSE None

\* fn is_at_end
Parser_is_at_end(p) ==
    IF Parser_peek(p).some THEN Parser_peek(p).val.token_type = "Eof" ELSE TRUE

\* advance without the test of is_at_end.
Parser_advance_Unguarded(p) == [p EXCEPT !.current = @ + 1]

\* fn advance, as the parser it leaves (the token it returns is previous()).
Parser_advance(p) ==
    IF ~Parser_is_at_end(p) THEN [p EXCEPT !.current = @ + 1] ELSE p

\* fn check
Parser_check(p, token_type) ==
    IF Parser_peek(p).some THEN Parser_peek(p).val.token_type = token_type
    ELSE FALSE

\* fn is_match, its boolean: some type of `types` is the type under the cursor.
Parser_matches(p, types) ==
    \E i \in 1..Len(types) : Parser_check(p, types[i])

\* fn is_match, the parser it leaves.
Parser_is_match(p, types) ==
    IF Parser_matches(p, types) THEN Parser_advance(p) ELSE p

\* Parser_error without the call of lox::error.
Parser_error_Silent(p, token, message) == ParseErr(p, message)

\* fn error: the diagnostic goes to lox::error, the ParseError to the caller.
Parser_error(p, token, message) ==
    ParseErr([p EXCEPT !.reports = Append(@, <<token.line, message>>)], message)

\* self.error(self.peek().unwrap(), message)
ErrorAtPeek(p, message) ==
    IF Parser_peek(p).some THEN Parser_error(p, Parser_peek(p).val, message)
    ELSE ParsePanic(p)

\* fn consume
Parser_consume(p, token_type, message) ==
    IF ~Parser_check(p, token_type) THEN ErrorAtPeek(p, message)
    ELSE IF Parser_previous(Parser_advance(p)).some
         THEN ParseOk(Parser_advance(p), Parser_previous(Parser_advance(p)).val)
         ELSE ParsePanic(Parser_advance(p))

EqualityOps == <<"BangEqual", "EqualEqual">>
ComparisonOps == <<"Greater", "GreaterEqual", "Less", "LessEqual">>
TermOps == <<"Minus", "Plus">>
FactorOps == <<"Slash", "Star">>
UnaryOps == <<"Bang", "Minus">>

\* Fold with the children the wrong way round.
Fold_Swapped(expr, operator, right) == Binary(right, operator, expr)

\* One fold of the loop of binary: the operator under the cursor was matched,
\* and `right` is what match_expr made of what follows it.
Fold(expr, operator, right) == Binary(expr, operator, right)

\* The grammar rules are one function each in the source, calling each other;
\* here they are the arms of Rule, by name, so that the recursion is that of
\* one operator.  match_expr, the argument of binary, is a rule's name.
RECURSIVE Rule(_, _)
RECURSIVE BinaryLoop(_, _, _, _)

\* while self.is_match(token_types) { ... } of binary, expr being the
\* expression folded so far.
BinaryLoop(match_expr, token_types, p, expr) ==
    IF ~Parser_matches(p, token_types) THEN ParseOk(p, expr)
    ELSE
    LET p1 == Parser_is_match(p, token_types)
        operator == Parser_previous(p1)
        right == Rule(match_expr, p1)
    IN IF ~operator.some THEN ParsePanic(p1)
       ELSE IF right.kind # "Ok" THEN right
       ELSE BinaryLoop(match_expr, token_types, right.p,
                       Fold(expr, operator.val, right.expr))

\* fn binary
Parser_binary(match_expr, token_types, p) ==
    LET expr == Rule(match_expr, p)
    IN IF expr.kind # "Ok" THEN expr
       ELSE BinaryLoop(match_expr, token_types, expr.p, expr.expr)

\* fn unary, after is_match: p1 is the parser past the operator, right what
\* unary made of what follows.
UnaryOf(p1, right) ==
    IF ~Parser_previous(p1).some THEN ParsePanic(p1)
    ELSE IF right.kind # "Ok" THEN right
    ELSE ParseOk(right.p, Unary(Parser_previous(p1).val, right.expr))

\* The '(' arm of primary: expr is what expression made of what follows '('.
GroupingOf(expr) ==
    IF expr.kind # "Ok" THEN expr
    ELSE LET closed == Parser_consume(expr.p, "RightParen",
                                      <<"Expect ')' after expression.">>)
         IN IF closed.kind # "Ok" THEN closed
            ELSE ParseOk(closed.p, Grouping(expr.expr))

\* The arms of primary that need no recursion: the literals, and the error.
\* (The arms of primary test the one token under the cursor for different
\* types, so that at most one of them matches, whatever their order.)
PrimaryLiteral(p) ==
    IF Parser_matches(p, <<"False">>)
    THEN ParseOk(Parser_advance(p), Literal(Some(Boolean(FALSE))))
    ELSE IF Parser_matches(p, <<"True">>)
    THEN ParseOk(Parser_advance(p), Literal(Some(Boolean(TRUE))))
    ELSE IF Parser_matches(p, <<"Nil">>)
    THEN ParseOk(Parser_advance(p), Literal(None))
    ELSE IF Parser_matches(p, <<"Number", "String">>)
    THEN IF Parser_previous(Parser_advance(p)).some
         THEN ParseOk(Parser_advance(p),
                      Literal(Parser_previous(Parser_advance(p)).val.literal))
         ELSE ParsePanic(Parser_advance(p))
    ELSE ErrorAtPeek(p, <<"Expect expression.">>)

\* fn expression, equality, comparison, term, factor, unary, primary
Rule(name, p) ==
    CASE name = "expression" -> Rule("equality", p)
      [] name = "equality" -> Parser_binary("comparison", EqualityOps, p)
      [] name = "comparison" -> Parser_binary("term", ComparisonOps, p)
      [] name = "term" -> Parser_binary("factor", TermOps, p)
      [] name = "factor" -> Parser_binary("unary", FactorOps, p)
      [] name = "unary" ->
           IF Parser_matches(p, UnaryOps)
           THEN UnaryOf(Parser_is_match(p, UnaryOps),
                        Rule("unary", Parser_is_match(p, UnaryOps)))
           ELSE Rule("primary", p)
      [] name = "primary" ->
           IF Parser_matches(p, <<"LeftParen">>)
           THEN GroupingOf(Rule("expression", Parser_advance(p)))
           ELSE PrimaryLiteral(p)

Parser_expression(p) == Rule("expression", p)
Parser_equality(p) == Rule("equality", p)
Parser_comparison(p) == Rule("comparison", p)
Parser_term(p) == Rule("term", p)
Parser_factor(p) == Rule("factor", p)
Parser_unary(p) == Rule("unary", p)
Parser_primary(p) == Rule("primary", p)

\* fn parse: self.expression().ok(), with the parser as it is left.
Parser_parse(p) ==
    LET r == Parser_expression(p)
    IN [panic |-> r.kind = "panic",
        p |-> r.p,
        expr |-> IF r.kind = "Ok" THEN Some(r.expr) ELSE None]

\* --------------------------------------------------------------- evaluator
\* Result<Option<Rc<dyn Any>>, RuntimeError>, and a panic.
Ok(v) == [kind |-> "Ok", val |-> v]
RuntimeError(message, token) == [kind |-> "Err", message |-> message, token |-> token]
EvalPanic == [kind |-> "panic"]

\* downcast_ref::<T>() is Some
IsA(v, type) == v.some /\ v.val.t = type

\* fn is_truthy
Expr_is_truthy(obj) ==
    IF obj.some
    THEN IF obj.val.t = "Boolean" THEN obj.val.bool ELSE TRUE
    ELSE FALSE

\* fn equals: Ok(bool), or the panic of b.unwrap().
Expr_equals(a, b) ==
    IF ~a.some /\ ~b.some THEN Ok(TRUE)
    ELSE IF ~a.some THEN Ok(FALSE)
    ELSE IF ~b.some THEN EvalPanic
    ELSE IF IsA(a, "Number") /\ IsA(b, "Number") THEN Ok(F64Eq(a.val.num, b.val.num))
    ELSE IF IsA(a, "Boolean") /\ IsA(b, "Boolean") THEN Ok(a.val.bool = b.val.bool)
    ELSE IF IsA(a, "Text") /\ IsA(b, "Text") THEN Ok(a.val.text = b.val.text)
    ELSE Ok(FALSE)

\* The end of try_convert::<f64>: val is what interpreting the operand gave.
ConvertF64(val, token, message) ==
    IF val.kind # "Ok" THEN val
    ELSE IF IsA(val.val, "Number") THEN Ok(val.val.val.num)
    ELSE RuntimeError(message, token)

\* The numeric operators of a Binary node, on two f64.
Arithmetic(token_type, l, r) ==
    CASE token_type = "Minus" -> Number(F64Sub(l, r))
      [] token_type = "Slash" -> Number(F64Div(l, r))
      [] token_type = "Star" -> Number(F64Mul(l, r))
      [] token_type = "Greater" -> Boolean(F64Lt(r, l))
      [] token_type = "GreaterEqual" -> Boolean(F64Lt(r, l) \/ F64Eq(l, r))
      [] token_type = "Less" -> Boolean(F64Lt(l, r))
      [] token_type = "LessEqual" -> Boolean(F64Lt(l, r) \/ F64Eq(l, r))

NumericOps ==
    {"Minus", "Slash", "Star", "Greater", "GreaterEqual", "Less", "LessEqual"}

\* InterpretPlus without the arm for two strings.
InterpretPlus_NumbersOnly(left, operator, right) ==
    LET err == RuntimeError(<<"Operands must be two numbers or two strings.">>,
                            operator)
    IN IF left.kind # "Ok" THEN left
       ELSE IF ~left.val.some THEN err
       ELSE IF right.kind # "Ok" THEN right
       ELSE IF ~right.val.some THEN err
       ELSE IF IsA(left.val, "Number") /\ IsA(right.val, "Number")
       THEN Ok(Some(Number(F64Add(left.val.val.num, right.val.val.num))))
       ELSE err

\* The TokenType::Plus arm of interpret: left and right are what interpreting
\* the operands gave (right counts only once left is a value).
InterpretPlus(left, operator, right) ==
    LET err == RuntimeError(<<"Operands must be two numbers or two strings.">>,
                            operator)
    IN IF left.kind # "Ok" THEN left
       ELSE IF ~left.val.some THEN err
       ELSE IF right.kind # "Ok" THEN right
       ELSE IF ~right.val.some THEN err
       ELSE IF IsA(left.val, "Number") /\ IsA(right.val, "Number")
       THEN Ok(Some(Number(F64Add(left.val.val.num, right.val.val.num))))
       ELSE IF IsA(left.val, "Text") /\ IsA(right.val, "Text")
       THEN Ok(Some(Text(left.val.val.text \o right.val.val.text)))
       ELSE err

\* InterpretEquality looking at the right operand first.
InterpretEquality_RightFirst(left, right, negate) ==
    IF right.kind # "Ok" THEN right
    ELSE IF left.kind # "Ok" THEN left
    ELSE LET eq == Expr_equals(left.val, right.val)
         IN IF eq.kind # "Ok" THEN eq
            ELSE Ok(Some(Boolean(IF negate THEN ~eq.val ELSE eq.val)))

\* The TokenType::EqualEqual and BangEqual arms of interpret; negate is TRUE
\* for BangEqual.
InterpretEquality(left, right, negate) ==
    IF left.kind # "Ok" THEN left
    ELSE IF right.kind # "Ok" THEN right
    ELSE LET eq == Expr_equals(left.val, right.val)
         IN IF eq.kind # "Ok" THEN eq
            ELSE Ok(Some(Boolean(IF negate THEN ~eq.val ELSE eq.val)))

RECURSIVE Expr_interpret(_)
\* fn try_convert::<f64>
Expr_try_convert(e, token, message) ==
    ConvertF64(Expr_interpret(e), token, message)

\* fn interpret
Expr_interpret(e) ==
    CASE e.node = "Literal" -> Ok(e.value)
      [] e.node = "Grouping" -> Expr_interpret(e.expression)
      [] e.node = "Unary" ->
           ( CASE e.operator.token_type = "Bang" ->
                    LET val == Expr_interpret(e.right)
                    IN IF val.kind # "Ok" THEN val
                       ELSE Ok(Some(Boolean(~Expr_is_truthy(val.val))))
               [] e.operator.token_type = "Minus" ->
                    LET val == Expr_try_convert(e.right, e.operator,
                                                <<"Operand must be a number.">>)
                    IN IF val.kind # "Ok" THEN val
                       ELSE Ok(Some(Number(F64Neg(val.val))))
               [] OTHER -> RuntimeError(<<"Invalid unary operator.">>, e.operator) )
      [] e.node = "Binary" ->
           ( CASE e.operator.token_type \in NumericOps ->
                    LET l == Expr_try_convert(e.left, e.operator,
                                              <<"Operands must be numbers.">>)
                        r == Expr_try_convert(e.right, e.operator,
                                              <<"Operands must be numbers.">>)
                    IN IF l.kind # "Ok" THEN l
                       ELSE IF r.kind # "Ok" THEN r
                       ELSE Ok(Some(Arithmetic(e.operator.token_type, l.val, r.val)))
               [] e.operator.token_type = "Plus" ->
                    InterpretPlus(Expr_interpret(e.left), e.operator,
                                  Expr_interpret(e.right))
               [] e.operator.token_type = "EqualEqual" ->
                    InterpretEquality(Expr_interpret(e.left),
                                      Expr_interpret(e.right), FALSE)
               [] e.operator.token_type = "BangEqual" ->
                    InterpretEquality(Expr_interpret(e.left),
                                      Expr_interpret(e.right), TRUE)
               [] OTHER -> RuntimeError(<<"Invalid binary operator.">>, e.operator) )

\* --------------------------------------------------------------- lox::run
\* let mut parser = Parser::new(tokens.clone()); parser.parse()
\* A parse failure has been reported by then, and run returns.
Parse ==
    /\ pc = "scanned"
    /\ LET r == Parser_parse(Parser_new(tokens))
       IN /\ parser' = Some([tokens |-> r.p.tokens, current |-> r.p.current])
          /\ errors' = errors \o r.p.reports
          /\ ast' = r.expr
          /\ pc' = IF r.panic THEN "panic"
                   ELSE IF r.expr.some THEN "parsed" ELSE "ran"
    /\ UNCHANGED <<source, tokens, start, current, line, result, stdin,
                   args>>

\* if let Some(expr) = parser.parse() { interpreter::interpret(expr) ... }
\* The value is printed, a RuntimeError is written to stderr; `result` is
\* the one or the other.
Interpret ==
    /\ pc = "parsed"
    /\ LET r == Expr_interpret(ast.val)
       IN /\ result' = IF r.kind = "panic" THEN result ELSE Some(r)
          /\ pc' = IF r.kind = "panic" THEN "panic" ELSE "ran"
    /\ UNCHANGED <<source, tokens, start, current, line, errors, parser, ast,
                   stdin, args>>

\* -------------------------------------------------------- lox::run_prompt
\* char::is_whitespace: the characters of the Unicode property White_Space.
IsWhitespace(c) ==
    c \in {"\t", NEWLINE, "U+000B", "\f", "\r", " ", "U+0085", "U+00A0",
           "U+1680", "U+2000", "U+2001", "U+2002", "U+2003", "U+2004",
           "U+2005", "U+2006", "U+2007", "U+2008", "U+2009", "U+200A",
           "U+2028", "U+2029", "U+202F", "U+205F", "U+3000"}

RECURSIVE TrimStart(_)
TrimStart(cs) ==
    IF cs # <<>> /\ IsWhitespace(Head(cs)) THEN TrimStart(Tail(cs)) ELSE cs

RECURSIVE TrimEnd(_)
TrimEnd(cs) ==
    IF cs # <<>> /\ IsWhitespace(cs[Len(cs)])
    THEN TrimEnd(SubSeq(cs, 1, Len(cs) - 1))
    ELSE cs

\* str::trim
Trim(cs) == TrimEnd(TrimStart(cs))

\* One turn of the loop of run_prompt, up to the call of run: a line is read
\* and trimmed; at the end of input, or on `exit`, the loop is left. The
\* flush of the prompt and the read can each be an Err (io is FALSE), which
\* run_prompt returns with `?` and main's expect makes a panic.
ReadLine ==
    /\ pc \in {"prompt", "ran"}
    /\ Len(args) = 1
    /\ \E io \in BOOLEAN :
           IF ~io
           THEN /\ pc' = "panic"
                /\ UNCHANGED <<source, tokens, start, current, line, parser, ast,
                               result, stdin>>
           ELSE IF stdin = <<>> \/ Trim(Head(stdin)) = <<"e", "x", "i", "t">>
           THEN /\ pc' = "exit"
                /\ stdin' = IF stdin = <<>> THEN stdin ELSE Tail(stdin)
                /\ UNCHANGED <<source, tokens, start, current, line, parser, ast,
                               result>>
           ELSE /\ pc' = "scan"
                /\ stdin' = Tail(stdin)
                /\ source' = Trim(Head(stdin))
                /\ SetScanner(Scanner_new(Trim(Head(stdin))))
                /\ parser' = None
                /\ ast' = None
                /\ result' = None
    /\ UNCHANGED <<errors, args>>

\* --------------------------------------------------------- lox::run_file
\* The texts of the files run_file is given.
FileTexts ==
    { <<>>,
      <<"e", "x", "i", "t">>,
      <<" ", "1", " ", "+", NEWLINE, "2", " ", NEWLINE>>,
      <<"1", NEWLINE, "2", NEWLINE>>,
      <<"@", NEWLINE, "(", "1">>,
      <<"-", QUOTE, "a", QUOTE>>,
      <<QUOTE, "a">>,
      <<"1", " ", "=", "=", " ", "n", "i", "l">> }

\* fn run_file, up to the call of run: the whole text of the file is the
\* source, as it is; a file that cannot be read is an Err, which main's
\* expect makes a panic.
RunFile ==
    /\ pc = "file"
    /\ \E read \in {None} \cup {Some(text) : text \in FileTexts} :
           IF read.some
           THEN /\ pc' = "scan"
                /\ source' = read.val
                /\ SetScanner(Scanner_new(read.val))
                /\ parser' = None
                /\ ast' = None
                /\ result' = None
           ELSE /\ pc' = "panic"
                /\ UNCHANGED <<source, tokens, start, current, line, parser, ast,
                               result>>
    /\ UNCHANGED <<errors, stdin, args>>

\* run has returned to run_file, which returns Ok(()).
RunFileReturn ==
    /\ pc = "ran"
    /\ Len(args) = 2
    /\ pc' = "exit"
    /\ UNCHANGED <<source, tokens, start, current, line, errors, parser, ast,
                   result, stdin, args>>

\* ------------------------------------------------------------------ main
\* fn main, from `match args.len()` on: no argument is the prompt, one the
\* file of that name, more the usage and exit(64).
Main ==
    /\ pc = "main"
    /\ pc' = CASE Len(args) = 1 -> "prompt"
              [] Len(args) = 2 -> "file"
              [] OTHER -> "usage"
    /\ UNCHANGED <<source, tokens, start, current, line, errors, parser, ast,
                   result, stdin, args>>

\* ---------------------------------------------------------- the program
\* Most lines run_prompt is given at once.
MaxLines == 2

\* The lines of the interactive sessions.
ReplLines ==
    { <<"1", " ", "+", " ", "2">>,
      <<" ", "1">>,
      <<"@">>,
      <<"(", "1">>,
      <<"-", QUOTE, "a", QUOTE>>,
      <<QUOTE, "a">>,
      <<"1", " ", "=", "=", " ", "n", "i", "l">>,
      <<"\f", "1", "U+00A0">>,
      <<"e", "x", "i", "t", "\f">>,
      <<"e", "x", "i", "t">> }

Init ==
    /\ args \in {<<"loxide">>, <<"loxide", "script.lox">>,
                 <<"loxide", "script.lox", "more">>}
    /\ stdin \in IF Len(args) = 1
                 THEN UNION {[1..k -> ReplLines] : k \in 0..MaxLines}
                 ELSE {<<>>}
    /\ source = <<>>
    /\ tokens = <<>>
    /\ start = 0
    /\ current = 0
    /\ line = 1
    /\ errors = <<>>
    /\ parser = None
    /\ ast = None
    /\ result = None
    /\ pc = "main"

Next ==
    \/ Main
    \/ ReadLine
    \/ RunFile
    \/ RunFileReturn
    \/ ScanToken
    \/ ScanEof
    \/ Parse
    \/ Interpret

\* The program: main with its arguments.
Spec == Init /\ [][Next]_vars

\* ------------------------------------------------- parsing, from tokens
\* Most tokens before Eof in an enumerated token stream.
MaxTokens == 4

\* The tokens streams are enumerated over: <<token_type, lexeme, literal>>.
ParseAlphabet ==
    { <<"Number", <<"1">>, Some(Number(F64OfInt(1)))>>,
      <<"Nil", <<"n", "i", "l">>, None>>,
      <<"Minus", <<"-">>, None>>,
      <<"Bang", <<"!">>, None>>,
      <<"Plus", <<"+">>, None>>,
      <<"Star", <<"*">>, None>>,
      <<"EqualEqual", <<"=", "=">>, None>>,
      <<"Less", <<"<">>, None>>,
      <<"LeftParen", <<"(">>, None>>,
      <<"RightParen", <<")">>, None>>,
      <<"Semicolon", <<";">>, None>> }

\* The stream of the tokens `protos`, token i on line i and Eof on a line of
\* its own.
StreamOf(protos) ==
    [i \in 1..(Len(protos) + 1) |->
        IF i <= Len(protos)
        THEN Token(protos[i][1], protos[i][2], protos[i][3], i)
        ELSE Token("Eof", <<>>, None, i)]

TokenStreams ==
    {StreamOf(ps) : ps \in UNION {[1..k -> ParseAlphabet] : k \in 0..MaxTokens}}

\* The tokens of `-123 * 45.67`, as the scanner's test has them.
ExampleStream ==
    << Token("Minus", <<"-">>, None, 1),
       Token("Number", <<"1", "2", "3">>, Some(Number(F64OfInt(123))), 1),
       Token("Star", <<"*">>, None, 1),
       Token("Number", <<"4", "5", ".", "6", "7">>, Some(Number(F64OfDecimal(FALSE, BigOfNat(4567), -2))), 1),
       Token("Eof", <<>>, None, 1) >>

\* The chains `1 op1 1 op2 1` of two binary operators.
ChainStreams ==
    LET one == <<"Number", <<"1">>, Some(Number(F64OfInt(1)))>>
        ops == {p \in ParseAlphabet :
                    p[1] \in {"Minus", "Plus", "Star", "EqualEqual", "Less"}}
    IN {StreamOf(<<one, a, one, b, one>>) : a \in ops, b \in ops}

ParseInit ==
    /\ tokens \in TokenStreams \cup ChainStreams \cup {ExampleStream}
    /\ source = <<>>
    /\ start = 0
    /\ current = 0
    /\ line = 1
    /\ errors = <<>>
    /\ parser = None
    /\ ast = None
    /\ result = None
    /\ stdin = <<>>
    /\ args = <<"loxide", "script.lox">>
    /\ pc = "scanned"

ParseNext == Parse \/ Interpret

\* run, from the tokens on.
SpecParse == ParseInit /\ [][ParseNext]_vars

\* ---------------------------------------------- evaluating, from the AST
\* Most nodes of an enumerated expression.
MaxNodes == 4

OperatorToken(token_type, lexeme) == Token(token_type, lexeme, None, 1)

\* The literals, operators and expressions the evaluator is run on.  Comma is
\* no operator of a Binary node and Plus none of a Unary node: the parser
\* builds neither, the Expr type allows both.
EvalLeaves ==
    { Literal(None),
      Literal(Some(Number(F64OfInt(1)))), Literal(Some(Number(F64OfInt(2)))),
      Literal(Some(Text(<<"a">>))), Literal(Some(Text(<<"b">>))),
      Literal(Some(Boolean(TRUE))), Literal(Some(Boolean(FALSE))) }

EvalUnaryTokens ==
    { OperatorToken("Bang", <<"!">>), OperatorToken("Minus", <<"-">>),
      OperatorToken("Plus", <<"+">>) }

EvalBinaryTokens ==
    { OperatorToken("Minus", <<"-">>), OperatorToken("Slash", <<"/">>),
      OperatorToken("Less", <<"<">>), OperatorToken("Plus", <<"+">>),
      OperatorToken("EqualEqual", <<"=", "=">>),
      OperatorToken("BangEqual", <<"!", "=">>),
      OperatorToken("Comma", <<",">>) }

RECURSIVE ExprsOfSize(_)
\* The expressions of exactly n nodes.
ExprsOfSize(n) ==
    IF n = 1 THEN EvalLeaves
    ELSE {Grouping(e) : e \in ExprsOfSize(n - 1)}
         \cup {Unary(op, e) : op \in EvalUnaryTokens, e \in ExprsOfSize(n - 1)}
         \cup UNION { {Binary(l, op, r) : l \in ExprsOfSize(k),
                                          op \in EvalBinaryTokens,
                                          r \in ExprsOfSize(n - 1 - k)}
                      : k \in 1..(n - 2) }

\* -"a" with its `-` on line ln: its evaluation fails, and the error bears
\* that token.
FailsAt(ln) ==
    Unary(Token("Minus", <<"-">>, None, ln), Literal(Some(Text(<<"a">>))))

\* Binary nodes whose right operand fails or panics (1 == nil) when it is
\* evaluated, under a left operand that fails, panics, or evaluates to nil,
\* to a string or to a number.
EvalExamples ==
    LET crashes == Binary(Literal(Some(Number(F64OfInt(1)))),
                          OperatorToken("EqualEqual", <<"=", "=">>),
                          Literal(None))
    IN {Binary(l, op, r) :
           l \in {FailsAt(2), crashes, Literal(None),
                  Literal(Some(Text(<<"a">>))), Literal(Some(Number(F64OfInt(1))))},
           op \in EvalBinaryTokens,
           r \in {FailsAt(3), crashes}}

\* Numeric operators whose exact result is no f64, and the comparisons that
\* tell: 0.1 + 0.2, 0.3 - 0.1, 0.1 * 3, 0.3 / 0.1, (0.1 + 0.2) == 0.3 and
\* 0.3 < (0.1 + 0.2).
RoundingExamples ==
    LET tenth(n) == Literal(Some(Number(F64OfDecimal(FALSE, BigOfNat(n), -1))))
        sum == Binary(tenth(1), OperatorToken("Plus", <<"+">>), tenth(2))
    IN { sum,
         Binary(tenth(3), OperatorToken("Minus", <<"-">>), tenth(1)),
         Binary(tenth(1), OperatorToken("Star", <<"*">>), tenth(30)),
         Binary(tenth(3), OperatorToken("Slash", <<"/">>), tenth(1)),
         Binary(sum, OperatorToken("EqualEqual", <<"=", "=">>), tenth(3)),
         Binary(tenth(3), OperatorToken("Less", <<"<">>), sum) }

\* Any expression of at most MaxNodes nodes, chosen by its root, or one of
\* the examples.
EvalInit ==
    /\ \/ ast \in {Some(e) : e \in EvalExamples \cup RoundingExamples}
       \/ \E n \in 1..MaxNodes :
             \/ /\ n = 1
                /\ \E e \in EvalLeaves : ast = Some(e)
             \/ /\ n > 1
                /\ \E e \in ExprsOfSize(n - 1) :
                      \/ ast = Some(Grouping(e))
                      \/ \E op \in EvalUnaryTokens : ast = Some(Unary(op, e))
             \/ /\ n > 2
                /\ \E k \in 1..(n - 2) :
                      \E l \in ExprsOfSize(k), r \in ExprsOfSize(n - 1 - k) :
                         \E op \in EvalBinaryTokens : ast = Some(Binary(l, op, r))
    /\ source = <<>>
    /\ tokens = <<>>
    /\ start = 0
    /\ current = 0
    /\ line = 1
    /\ errors = <<>>
    /\ parser = None
    /\ result = None
    /\ stdin = <<>>
    /\ args = <<"loxide", "script.lox">>
    /\ pc = "parsed"

EvalNext == Interpret

\* interpreter::interpret, on any expression.
SpecEval == EvalInit /\ [][EvalNext]_vars

\* ============================================================ the claims
\* --------------------------------------------------------- scanner claims
\* The last element of a non-empty sequence.
Last(seq) == seq[Len(seq)]

\* C1: for every source string, scan_tokens on a fresh Scanner returns (it does
\* not panic), and what it returns has length >= 1, ends with an Eof token with
\* empty lexeme, no literal and the final line counter, and holds no earlier Eof.
C1_ScanTokensEndsWithOneEof ==
    /\ pc # "panic"
    /\ pc = "scanned" =>
          /\ Len(tokens) >= 1
          /\ Last(tokens) = Token("Eof", <<>>, None, line)
          /\ \A i \in 1..(Len(tokens) - 1) : tokens[i].token_type # "Eof"

\* The scanner stands on a '"' that no later '"' closes.
AtUnterminatedString ==
    /\ pc = "scan"
    /\ current < Len(source)
    /\ source[current + 1] = QUOTE
    /\ \A i \in (current + 2)..Len(source) : source[i] # QUOTE

\* C2: a '"' that is opened and not closed before the end of input makes the
\* scanner report exactly one error, "Unterminated string." at the current
\* line, push no token and not crash; the scan loop is then over, so that the
\* Eof token is what follows.
C2_UnterminatedStringReported ==
    [][AtUnterminatedString =>
          /\ pc' = "scan"
          /\ errors' = Append(errors, <<line', <<"Unterminated string.">> >>)
          /\ tokens' = tokens
          /\ current' >= Len(source)]_vars

\* No '"' and no control character.
IsControl(c) == c \in {NEWLINE, "\r", "\t", NUL}

IsQuotedPlain ==
    /\ Len(source) >= 2
    /\ source[1] = QUOTE
    /\ Last(source) = QUOTE
    /\ \A i \in 2..(Len(source) - 1) : source[i] # QUOTE /\ ~IsControl(source[i])

\* C5: for every s without '"' and without control characters, ASCII or not,
\* scanning '"' + s + '"' does not crash, reports no error and yields exactly
\* the String token with the whole source as lexeme and s as literal, then Eof.
C5_StringRoundTrip ==
    IsQuotedPlain =>
        /\ pc # "panic"
        /\ pc = "scanned" =>
              /\ errors = <<>>
              /\ tokens =
                     << Token("String", source,
                              Some(Text(SubSeq(source, 2, Len(source) - 1))), 1),
                        Token("Eof", <<>>, None, 1) >>

\* The characters scan_token has a rule for, other than digits and letters.
TokenPunctuation ==
    DOMAIN SingleChar \cup DOMAIN WithEqual \cup {"/"}

\* The scanner stands on c, and c is none of: punctuation of the token set,
\* whitespace, newline, '"'.
AtOtherCharacter(c) ==
    /\ pc = "scan"
    /\ current < Len(source)
    /\ source[current + 1] = c
    /\ c \notin TokenPunctuation \cup {" ", "\r", "\t", NEWLINE, QUOTE}

\* The step reports exactly one error, message m at the current line, pushes
\* no token, and leaves the scanner on the next character.
SkipsWithError(m) ==
    /\ pc' = "scan"
    /\ errors' = Append(errors, <<line, m>>)
    /\ tokens' = tokens
    /\ line' = line
    /\ current' = current + 1

\* C9, as stated: a character that is no punctuation of the token set, no
\* whitespace, no newline, no '"', no digit and no letter is reported as
\* "Unexpected character." at the current line, yields no token, and the
\* scanner goes on with the next character.
C9_UnexpectedCharacterAsStated ==
    [][\A c \in ScanAlphabet :
          AtOtherCharacter(c) /\ c \notin AsciiDigits /\ ~IsAlphabetic(c)
              => SkipsWithError(<<"Unexpected character.">>)]_vars

\* 1.2 as an f64: 0x3FF3333333333333, that is 5404319552844595 * 2^-52.
OnePointTwo ==
    [cls |-> "finite", neg |-> FALSE, m |-> <<13107, 26214, 19660, 153>>,
     e |-> -52]

\* 45.67 as an f64: 0x4046D5C28F5C28F6, that is 3213575557227643 * 2^-46.
FortyFivePointSixSeven ==
    [cls |-> "finite", neg |-> FALSE, m |-> <<5243, 3932, 11141, 91>>,
     e |-> -46]

\* digits+ ( '.' digits+ )?
IsDecimalLiteral(cs) ==
    /\ cs # <<>>
    /\ \A i \in 1..Len(cs) : cs[i] \in AsciiDigits \cup {"."}
    /\ Cardinality({i \in 1..Len(cs) : cs[i] = "."}) <= 1
    /\ Head(cs) # "."
    /\ Last(cs) # "."

\* The scanner stands on a decimal digit.
AtDecimalDigit ==
    /\ pc = "scan"
    /\ current < Len(source)
    /\ source[current + 1] \in AsciiDigits

\* Where the decimal digits that follow the first i characters of the
\* source end: j characters in, the next being no decimal digit.
DigitRunEnd(i) ==
    CHOOSE j \in i..Len(source) :
        /\ \A k \in (i + 1)..j : source[k] \in AsciiDigits
        /\ j = Len(source) \/ source[j + 1] \notin AsciiDigits

\* Where the numeric lexeme at the cursor ends: after the digits, and after
\* one '.' and the digits behind it when a digit follows the '.' directly.
DecimalEnd ==
    LET digits == DigitRunEnd(current)
    IN IF /\ digits + 2 <= Len(source)
          /\ source[digits + 1] = "."
          /\ source[digits + 2] \in AsciiDigits
       THEN DigitRunEnd(digits + 1)
       ELSE digits

\* What scan_tokens has returned for a decimal literal alone, for `1.`, for
\* `1.2.3` and for the source of test_scan_tokens, `-123 * 45.67`.
DecimalExamples ==
    pc = "scanned" =>
        /\ IsDecimalLiteral(source) =>
              /\ Len(tokens) = 2
              /\ tokens[1].token_type = "Number"
              /\ tokens[1].lexeme = source
              /\ tokens[2] = Token("Eof", <<>>, None, 1)
        /\ source = <<"1", ".">> =>
              tokens = << Token("Number", <<"1">>, Some(Number(F64OfInt(1))), 1),
                          Token("Dot", <<".">>, None, 1),
                          Token("Eof", <<>>, None, 1) >>
        /\ source = <<"1", ".", "2", ".", "3">> =>
              tokens = << Token("Number", <<"1", ".", "2">>,
                                Some(Number(OnePointTwo)), 1),
                          Token("Dot", <<".">>, None, 1),
                          Token("Number", <<"3">>, Some(Number(F64OfInt(3))), 1),
                          Token("Eof", <<>>, None, 1) >>
        /\ source = <<"-", "1", "2", "3", " ", "*", " ", "4", "5", ".", "6", "7">> =>
              tokens = << Token("Minus", <<"-">>, None, 1),
                          Token("Number", <<"1", "2", "3">>,
                                Some(Number(F64OfInt(123))), 1),
                          Token("Star", <<"*">>, None, 1),
                          Token("Number", <<"4", "5", ".", "6", "7">>,
                                Some(Number(FortyFivePointSixSeven)), 1),
                          Token("Eof", <<>>, None, 1) >>

\* C10: wherever the scanner stands on a decimal digit, in any source, the
\* step pushes one Number token and nothing else: its lexeme is the decimal
\* digits from the cursor on, with one '.' and the digits behind it when a
\* digit follows the '.' directly, its literal is the f64 of that lexeme, and
\* the cursor is left behind the lexeme; the scanner neither crashes nor
\* reports. Hence a decimal literal alone is one Number token and Eof, `1.`
\* is Number 1 then Dot, `1.2.3` is Number 1.2, Dot, Number 3, and
\* `-123 * 45.67` is Minus, Number 123, Star, Number 45.67.
C10_NumberLexemeMaximal ==
    [][/\ AtDecimalDigit =>
              LET lexeme == SubSeq(source, current + 1, DecimalEnd)
              IN /\ pc' = "scan"
                 /\ current' = DecimalEnd
                 /\ errors' = errors
                 /\ line' = line
                 /\ tokens' = Append(tokens,
                                     Token("Number", lexeme,
                                           Some(Number(ParseF64(lexeme).val)),
                                           line))
       /\ DecimalExamples']_vars

\* ------------------------------------------------------------ C3
\* Equality of two values as the language defines it: nil equals nil only,
\* values of different types differ, values of one type are compared.
ValuesEqual(a, b) ==
    IF ~a.some /\ ~b.some THEN TRUE
    ELSE IF ~a.some \/ ~b.some THEN FALSE
    ELSE IF a.val.t # b.val.t THEN FALSE
    ELSE a.val = b.val

IsEqualityOfLiterals(e) ==
    /\ e.node = "Binary"
    /\ e.operator.token_type \in {"EqualEqual", "BangEqual"}
    /\ e.left.node = "Literal"
    /\ e.right.node = "Literal"

\* C3: once Binary(a, ==, b) or Binary(a, !=, b) over two literal operands
\* (Nil, Number, Boolean or Text on either side) has been evaluated, the
\* evaluation has neither crashed nor failed, and its result is the Boolean
\* ValuesEqual(a, b) for `==` and its negation for `!=`.
C3_EqualityTotal ==
    (pc # "parsed" /\ ast.some /\ IsEqualityOfLiterals(ast.val)) =>
        LET eq == ValuesEqual(ast.val.left.value, ast.val.right.value)
            expected == IF ast.val.operator.token_type = "EqualEqual"
                        THEN eq ELSE ~eq
        IN /\ pc = "ran"
           /\ result = Some(Ok(Some(Boolean(expected))))

\* ------------------------------------------------------------ C4
\* C4: in interactive mode, running a line (scanning, parsing, evaluating it)
\* never ends the process, whatever error the line raises: run returns, and
\* run_prompt returns only at the end of input or on the line `exit`. (A
\* failure of the terminal, the Err of flush or read_line, is raised between
\* two lines and is no error of a line: the claim does not speak of it.)
C4_ReplSurvivesErrors ==
    [][Len(args) = 1 =>
          /\ pc \in {"scan", "scanned", "parsed"} =>
                pc' \in {"scan", "scanned", "parsed", "ran"}
          /\ (pc' = "exit" /\ pc # "exit") =>
                (stdin = <<>> \/ Trim(Head(stdin)) = <<"e", "x", "i", "t">>)]_vars

\* ------------------------------------------------------------ C6
\* x is a whole number of 64ths, of less than the given number of bits: the
\* sum of two such numbers of 29 bits is one of 30 bits, and an f64.
IsSmall(x, bits) ==
    /\ x.cls = "finite"
    /\ x.e >= -6
    /\ BigBitLen(x.m) + x.e + 6 <= bits

\* The 64ths of x.
In64ths(x) ==
    (IF x.neg THEN -1 ELSE 1)
        * (Digit(x.m, 1) + Digit(x.m, 2) * LimbBase + Digit(x.m, 3) * LimbBase^2)
        * 2^(x.e + 6)

\* x is the sum of the small numbers a and b.
IsSumOf(x, a, b) ==
    /\ IsSmall(x, 30)
    /\ In64ths(x) = In64ths(a) + In64ths(b)

\* 0.1, 0.2 and the f64 nearest to their sum, 0.30000000000000004:
\* 0x3FB999999999999A, 0x3FC999999999999A and 0x3FD3333333333334.
OneTenth ==
    [cls |-> "finite", neg |-> FALSE, m |-> <<19661, 6553, 13107, 102>>,
     e |-> -55]
TwoTenths ==
    [cls |-> "finite", neg |-> FALSE, m |-> <<19661, 6553, 13107, 102>>,
     e |-> -54]
ThreeTenthsAndABit ==
    [cls |-> "finite", neg |-> FALSE, m |-> <<19661, 6553, 13107, 38>>,
     e |-> -52]

IsPlusNode(e) == e.node = "Binary" /\ e.operator.token_type = "Plus"

\* C6: once a Binary `+` node whose operands evaluate to the values a and b
\* has been evaluated: if a and b are Numbers the result is a Number, their
\* sum (the sum itself when they are small, 0.30000000000000004 for 0.1 and
\* 0.2); if both are Text the result is the Text a followed by b; in every
\* other case (Nil on a side, types that differ, Booleans) the result is the
\* RuntimeError "Operands must be two numbers or two strings." with the `+`
\* token of the node.
C6_PlusSemantics ==
    (pc # "parsed" /\ ast.some /\ IsPlusNode(ast.val)) =>
        LET a == Expr_interpret(ast.val.left)
            b == Expr_interpret(ast.val.right)
        IN (a.kind = "Ok" /\ b.kind = "Ok") =>
            /\ pc = "ran"
            /\ result.some
            /\ IF IsA(a.val, "Number") /\ IsA(b.val, "Number")
               THEN /\ result.val.kind = "Ok"
                    /\ IsA(result.val.val, "Number")
                    /\ (IsSmall(a.val.val.num, 29) /\ IsSmall(b.val.val.num, 29)) =>
                         IsSumOf(result.val.val.val.num,
                                 a.val.val.num, b.val.val.num)
                    /\ (a.val.val.num = OneTenth /\ b.val.val.num = TwoTenths) =>
                         result.val.val.val.num = ThreeTenthsAndABit
               ELSE IF IsA(a.val, "Text") /\ IsA(b.val, "Text")
               THEN result.val =
                        Ok(Some(Text(a.val.val.text \o b.val.val.text)))
               ELSE /\ result.val.kind = "Err"
                    /\ result.val.message =
                         <<"Operands must be two numbers or two strings.">>
                    /\ result.val.token = ast.val.operator

\* `1 + "a"` has given the error, with its `+` token.
C6_Witness ==
    /\ pc = "ran"
    /\ ast.some
    /\ IsPlusNode(ast.val)
    /\ ast.val.left = Literal(Some(Number(F64OfInt(1))))
    /\ ast.val.right = Literal(Some(Text(<<"a">>)))
    /\ result = Some(RuntimeError(<<"Operands must be two numbers or two strings.">>,
                                  OperatorToken("Plus", <<"+">>)))

\* ------------------------------------------------------------ C7
SeqRange(seq) == {seq[i] : i \in 1..Len(seq)}

\* The operators of a binary level of the grammar, and the level below it.
LevelOps(level) ==
    CASE level = "equality" -> SeqRange(EqualityOps)
      [] level = "comparison" -> SeqRange(ComparisonOps)
      [] level = "term" -> SeqRange(TermOps)
      [] level = "factor" -> SeqRange(FactorOps)

LevelBelow(level) ==
    CASE level = "equality" -> "comparison"
      [] level = "comparison" -> "term"
      [] level = "term" -> "factor"
      [] level = "factor" -> "unary"

RECURSIVE Derives(_, _)
\* The trees the grammar gives the token sequence ts at a level:
\*   expression -> equality
\*   L          -> L op below(L) | below(L)       (op an operator of L)
\*   unary      -> ("!" | "-") unary | primary
\*   primary    -> literal | "(" expression ")"
\* found by trying every split, with no cursor and no look-ahead.
Derives(level, ts) ==
    LET n == Len(ts) IN
    IF n = 0 THEN {}
    ELSE IF level = "expression" THEN Derives("equality", ts)
    ELSE IF level = "primary"
    THEN (IF n # 1 THEN {}
          ELSE IF ts[1].token_type = "False" THEN {Literal(Some(Boolean(FALSE)))}
          ELSE IF ts[1].token_type = "True" THEN {Literal(Some(Boolean(TRUE)))}
          ELSE IF ts[1].token_type = "Nil" THEN {Literal(None)}
          ELSE IF ts[1].token_type \in {"Number", "String"}
          THEN {Literal(ts[1].literal)}
          ELSE {})
         \cup
         (IF n >= 3 /\ ts[1].token_type = "LeftParen"
                    /\ ts[n].token_type = "RightParen"
          THEN {Grouping(e) : e \in Derives("expression", SubSeq(ts, 2, n - 1))}
          ELSE {})
    ELSE IF level = "unary"
    THEN (IF n >= 2 /\ ts[1].token_type \in SeqRange(UnaryOps)
          THEN {Unary(ts[1], e) : e \in Derives("unary", Tail(ts))}
          ELSE {})
         \cup Derives("primary", ts)
    ELSE Derives(LevelBelow(level), ts)
         \cup UNION { {Binary(l, ts[k], r) :
                          l \in Derives(level, SubSeq(ts, 1, k - 1)),
                          r \in Derives(LevelBelow(level), SubSeq(ts, k + 1, n))}
                      : k \in {j \in 2..(n - 1) :
                                  ts[j].token_type \in LevelOps(level)} }

\* The tokens before the Eof token.
BeforeEof(toks) == SubSeq(toks, 1, Len(toks) - 1)

Parsing == parser.some

\* C7: once Parser::parse has run on a token sequence that is a sentence of
\* the expression grammar, it has returned the one tree the grammar gives
\* the sentence (a lower level binds tighter, a binary level folds to the
\* left, prefix operators nest), with the cursor on the Eof token; the tokens
\* of `-123 * 45.67` have given Binary(Unary(-, 123), *, 45.67).
C7_ParseFollowsGrammar ==
    Parsing =>
        /\ LET trees == Derives("expression", BeforeEof(tokens))
           IN trees # {} =>
                /\ ast.some
                /\ trees = {ast.val}
                /\ parser.val.current = Len(tokens) - 1
                /\ errors = <<>>
        /\ tokens = ExampleStream =>
             ast = Some(Binary(Unary(ExampleStream[1],
                                     Literal(Some(Number(F64OfInt(123))))),
                               ExampleStream[3],
                               Literal(Some(Number(F64OfDecimal(FALSE, BigOfNat(4567), -2))))))

\* `1 - 1 - 1` has been parsed as (1 - 1) - 1, `1 + 1 * 1` as 1 + (1 * 1),
\* or `! - 1` as !(-(1)).
C7_Witness ==
    /\ Parsing
    /\ ast.some
    /\ LET one == Literal(Some(Number(F64OfInt(1))))
           e == ast.val
       IN \/ /\ Len(tokens) = 6
             /\ tokens[2].token_type = "Minus"
             /\ tokens[4].token_type = "Minus"
             /\ e = Binary(Binary(one, tokens[2], one), tokens[4], one)
          \/ /\ Len(tokens) = 6
             /\ tokens[2].token_type = "Plus"
             /\ tokens[4].token_type = "Star"
             /\ e = Binary(one, tokens[2], Binary(one, tokens[4], one))
          \/ /\ Len(tokens) = 4
             /\ tokens[1].token_type = "Bang"
             /\ tokens[2].token_type = "Minus"
             /\ e = Unary(tokens[1], Unary(tokens[2], one))

\* ------------------------------------------------------------ C8
ParseFailed == parser.some /\ ~ast.some

\* The token the cursor is on, and the one before it.
UnderCursor == tokens[parser.val.current + 1]
BeforeCursor == tokens[parser.val.current]

OperandEnds == {"False", "True", "Nil", "Number", "String", "RightParen"}

\* The parentheses opened and not closed before the cursor.
OpenParens ==
    Cardinality({i \in 1..parser.val.current : tokens[i].token_type = "LeftParen"})
    - Cardinality({i \in 1..parser.val.current : tokens[i].token_type = "RightParen"})

\* C8: once parsing has failed on an Eof-terminated token sequence, parse
\* has not crashed, exactly one diagnostic has been reported, with the line
\* of the token under the cursor and one of two messages: "Expect
\* expression." where an operand is due and the token under the cursor
\* starts none, "Expect ')' after expression." where the expression inside
\* an open parenthesis has ended and the token under the cursor is no `)`;
\* no AST has been returned and nothing has been evaluated.  A parse that
\* succeeds reports nothing.
C8_ParseFailureReported ==
    /\ ParseFailed =>
        /\ pc = "ran"
        /\ result = None
        /\ Len(errors) = 1
        /\ errors[1][1] = UnderCursor.line
        /\ \/ /\ errors[1][2] = <<"Expect expression.">>
              /\ UnderCursor.token_type \notin
                    {"False", "True", "Nil", "Number", "String", "LeftParen",
                     "Bang", "Minus"}
              /\ parser.val.current > 0 =>
                    BeforeCursor.token_type \notin OperandEnds
           \/ /\ errors[1][2] = <<"Expect ')' after expression.">>
              /\ UnderCursor.token_type # "RightParen"
              /\ parser.val.current > 0
              /\ BeforeCursor.token_type \in OperandEnds
              /\ OpenParens > 0
    /\ (parser.some /\ ast.some) => errors = <<>>

\* `( 1` and `1 + ;` have failed, each with its message, at the line of the
\* token they stopped on.
C8_Witness ==
    /\ ParseFailed
    /\ pc = "ran"
    /\ \/ /\ Len(tokens) = 3
          /\ tokens[1].token_type = "LeftParen"
          /\ tokens[2].token_type = "Number"
          /\ errors = << <<3, <<"Expect ')' after expression.">>>> >>
       \/ /\ Len(tokens) = 4
          /\ tokens[2].token_type = "Plus"
          /\ tokens[3].token_type = "Semicolon"
          /\ errors = << <<3, <<"Expect expression.">>>> >>

\* ------------------------------------------------------------ C11
\* The scanner stands on `//`.
AtComment ==
    /\ pc = "scan"
    /\ current + 2 <= Len(source)
    /\ source[current + 1] = "/"
    /\ source[current + 2] = "/"

\* The first position after the `//` under the scanner that is the end of
\* the source or has a newline next.
CommentEnd ==
    CHOOSE j \in (current + 2)..Len(source) :
        /\ j = Len(source) \/ source[j + 1] = NEWLINE
        /\ \A i \in (current + 2)..(j - 1) : source[i + 1] # NEWLINE

Count(cs, c) == Cardinality({i \in 1..Len(cs) : cs[i] = c})

\* The source is t // c r: `//` at k+1 begins a comment (the text t before
\* it has its strings closed and does not end in `/`), the comment's text c
\* reaches up to m and holds no newline, and r, the rest, is empty or begins
\* with the newline.  Where a rest follows, t // c is ASCII: the lexemes of
\* the tokens of r are cut from the source by byte offsets, which text of
\* more than one byte a character shifts.
IsCommentSplit(k, m) ==
    /\ source[k + 1] = "/"
    /\ source[k + 2] = "/"
    /\ (k > 0 => source[k] # "/")
    /\ Count(SubSeq(source, 1, k), QUOTE) % 2 = 0
    /\ \A i \in (k + 3)..m : source[i] # NEWLINE
    /\ m < Len(source) => source[m + 1] = NEWLINE
    /\ m < Len(source) => \A i \in 1..m : Utf8Len(source[i]) = 1

\* C11: a step of the scanner that begins on `//` leaves the scanner before
\* the next newline, or at the end of the source, and pushes no token,
\* reports nothing and leaves the line counter alone; the step on a newline,
\* the one ending a comment included, adds one to the line counter; and once
\* scan_tokens has returned, the tokens (and the errors) of a source t // c r
\* are those of the source t r, the comment left out.
C11_CommentSkipped ==
    /\ [][/\ AtComment =>
               /\ pc' = "scan"
               /\ current' = CommentEnd
               /\ tokens' = tokens
               /\ errors' = errors
               /\ line' = line
          /\ (pc = "scan" /\ current < Len(source)
                /\ source[current + 1] = NEWLINE) =>
               /\ pc' = "scan"
               /\ current' = current + 1
               /\ line' = line + 1
               /\ tokens' = tokens]_vars
    /\ [](pc = "scanned" =>
            \A k \in 0..(Len(source) - 2) : \A m \in (k + 2)..Len(source) :
                IsCommentSplit(k, m) =>
                    Scanner_scan_tokens(SubSeq(source, 1, k)
                                        \o SubSeq(source, m + 1, Len(source)))
                      = [panic |-> FALSE, tokens |-> tokens, errors |-> errors])

\* `1 // a`, a newline, a string over two lines and `1` has been scanned: the
\* comment gave no token, and the newline after it was counted.
C11_Witness ==
    /\ pc = "scanned"
    /\ source = <<"1", " ", "/", "/", " ", "a", NEWLINE, QUOTE, NEWLINE, "a",
                  QUOTE, " ", "1">>
    /\ Len(tokens) = 4
    /\ tokens[1] = Token("Number", <<"1">>, Some(Number(F64OfInt(1))), 1)
    /\ tokens[2].token_type = "String"
    /\ tokens[4] = Token("Eof", <<>>, None, 3)
    /\ errors = <<>>

\* ------------------------------------------------------------ C12
\* The newlines among the first n characters of the source.
NewlinesBefore(n) ==
    Cardinality({i \in 1..Len(source) : i <= n /\ source[i] = NEWLINE})

\* C12: between the steps of the scanner, and once it has returned, the line
\* counter is 1 plus the number of newlines among the characters consumed,
\* wherever they lay (between tokens, after a comment, inside a string); a
\* step on a space, a carriage return or a tab leaves the counter alone; and
\* a token, when pushed, bears 1 plus the number of newlines before the end
\* of its lexeme.
C12_LineCounter ==
    /\ [](pc \in {"scan", "scanned"} => line = 1 + NewlinesBefore(current))
    /\ [][/\ (pc = "scan" /\ current < Len(source)
                /\ source[current + 1] \in {" ", "\r", "\t"}) =>
               /\ pc' = "scan"
               /\ line' = line
               /\ current' = current + 1
               /\ tokens' = tokens
          /\ (pc = "scan" /\ pc' # "panic" /\ tokens' # tokens) =>
               /\ Len(tokens') = Len(tokens) + 1
               /\ Last(tokens').line = 1 + NewlinesBefore(current')]_vars

\* A string over two lines, begun on line 2 after a comment, has been
\* scanned: the token bears line 3, and so does the number after it.
C12_Witness ==
    /\ pc = "scanned"
    /\ source = <<"1", " ", "/", "/", " ", "a", NEWLINE, QUOTE, NEWLINE, "a",
                  QUOTE, " ", "1">>
    /\ tokens[2] = Token("String", <<QUOTE, NEWLINE, "a", QUOTE>>,
                         Some(Text(<<NEWLINE, "a">>)), 3)
    /\ tokens[3].line = 3
    /\ line = 3

\* ------------------------------------------------------------ C13
\* C13: whenever Parser::parse has returned an expression, the cursor is on
\* the Eof token: no token is left over after the expression.
C13_NoTokensLeftOver ==
    (Parsing /\ ast.some) => parser.val.current = Len(tokens) - 1

\* ------------------------------------------------------------ C14
\* The binary operators the parser folds, all of which interpret evaluates.
BinaryOperators == NumericOps \cup {"Plus", "EqualEqual", "BangEqual"}

\* The error of the check interpret makes on the left operand alone, under
\* the operator token op, when the left operand has evaluated to v: a
\* numeric operator wants a number, `+` wants a value; None when v passes.
LeftCheck(op, v) ==
    IF op.token_type \in NumericOps /\ ~IsA(v, "Number")
    THEN Some(RuntimeError(<<"Operands must be numbers.">>, op))
    ELSE IF op.token_type = "Plus" /\ ~v.some
    THEN Some(RuntimeError(<<"Operands must be two numbers or two strings.">>,
                           op))
    ELSE None

\* C14: once a Binary node under one of the operators of the grammar has
\* been evaluated: if the evaluation of its left operand failed, that
\* RuntimeError is the result; if the left operand evaluated and failed the
\* check its operator makes on it, the error of the check is the result;
\* both whatever the right operand would do, fail or crash, were it
\* evaluated.  Only when the left operand has passed is a failure of the
\* right operand the result.
C14_LeftOperandFirst ==
    (pc # "parsed" /\ ast.some /\ ast.val.node = "Binary"
        /\ ast.val.operator.token_type \in BinaryOperators) =>
        LET l == Expr_interpret(ast.val.left)
            r == Expr_interpret(ast.val.right)
        IN /\ l.kind = "Err" => (pc = "ran" /\ result = Some(l))
           /\ (l.kind = "Ok" /\ LeftCheck(ast.val.operator, l.val).some) =>
                 (pc = "ran" /\ result = LeftCheck(ast.val.operator, l.val))
           /\ (l.kind = "Ok" /\ ~LeftCheck(ast.val.operator, l.val).some
                 /\ r.kind = "Err") =>
                 (pc = "ran" /\ result = Some(r))

\* (-"a") == (1 == nil) has been evaluated: the result is the error of the
\* left operand, with its `-` of line 2, and the right operand, which
\* would have crashed, did not.
C14_Witness ==
    /\ pc = "ran"
    /\ ast.some
    /\ ast.val.node = "Binary"
    /\ ast.val.operator.token_type = "EqualEqual"
    /\ ast.val.left = FailsAt(2)
    /\ ast.val.right.node = "Binary"
    /\ result = Some(RuntimeError(<<"Operand must be a number.">>,
                                  Token("Minus", <<"-">>, None, 2)))

\* ------------------------------------------------------------ C15
\* The parser over the tokens of the state with its cursor on c.
ParserAt(c) == [tokens |-> tokens, current |-> c, reports |-> <<>>]

AllOps == EqualityOps \o ComparisonOps \o TermOps \o FactorOps \o UnaryOps

\* C15: on a token sequence of n >= 1 tokens ending in Eof, Parser::parse
\* does not panic (no unwrap of peek() or previous() fails) and leaves the
\* cursor within 0..n-1; and the cursor cannot have left 0..n-1 on the way,
\* for it starts on 0 and from every position c of 0..n-1 there is a token
\* under it, advance leaves it on c or c+1 and within 0..n-1 (on Eof it
\* stays), and after an is_match or a consume that moved it, previous() has
\* a token to return.
C15_CursorInBounds ==
    Parsing =>
        /\ ~(pc = "panic" /\ ~ast.some)
        /\ 0 <= parser.val.current
        /\ parser.val.current <= Len(tokens) - 1
        /\ \A c \in 0..(Len(tokens) - 1) :
              LET p == ParserAt(c)
                  moved == Parser_is_match(p, AllOps)
                  closed == Parser_consume(p, "RightParen", <<>>)
              IN /\ Parser_peek(p).some
                 /\ Parser_advance(p).current \in {c, c + 1}
                 /\ Parser_advance(p).current <= Len(tokens) - 1
                 /\ Parser_is_at_end(p) => Parser_advance(p).current = c
                 /\ moved.current \in {c, c + 1}
                 /\ moved.current <= Len(tokens) - 1
                 /\ moved.current = c + 1 => Parser_previous(moved).some
                 /\ closed.kind # "panic"
                 /\ closed.p.current <= Len(tokens) - 1

\* `1 +` has been parsed: primary found Eof under the cursor, the last
\* position, and peek() gave it the token whose line is reported.
C15_Witness ==
    /\ Parsing
    /\ pc = "ran"
    /\ Len(tokens) = 3
    /\ tokens[1].token_type = "Number"
    /\ tokens[2].token_type = "Plus"
    /\ parser.val.current = 2
    /\ errors = << <<3, <<"Expect expression.">>>> >>

====
